---- MODULE Spec2Model ----
(***************************************************************************)
(* Model of the domain-check backend: the RateLimiter (serial query        *)
(* scheduler), the CacheService, checkDomain / checkMultipleDomains of     *)
(* WhoisService and GoDaddyService that sit on top of them, and the        *)
(* routes POST /api/check and POST /api/check-single that call them.       *)
(*                                                                         *)
(* Time is the value of Date.now() in abstract units (one unit stands for  *)
(* 1000 ms); a setTimeout(ms) timer may fire at any time >= its deadline.  *)
(* Every action is one run-to-completion step of the JavaScript event      *)
(* loop: the synchronous code between two awaits.                          *)
(***************************************************************************)
EXTENDS Integers, Sequences, FiniteSets, TLC

\* ---------------------------------------------------------------- bounds
MaxTasks == 3
MaxTime  == 3
MaxDelay == 2

\* config.rateLimitDelay (2000 ms), in model time units
RateLimitDelay == 2

\* checkDomain invocations (each may submit one task), requests at a time,
\* entries per request
MaxCalls == 2
MaxBatches == 2
MaxBatchLen == 2

\* config.cacheTTL (24 h), in model time units: shortened so that an entry
\* can expire before MaxTime
CacheTTL == 2

Tasks  == 1..MaxTasks
Times  == 0..MaxTime
Delays == 0..MaxDelay

\* what a task function can produce: a value it returns or an error it throws
Outcomes  == [ok : {TRUE}, val : {"r1", "r2"}] \cup [ok : {FALSE}, val : {"e1", "e2"}]
NoOutcome == [ok |-> FALSE, val |-> "-"]

NoPromise == [st |-> "none",    val |-> "-"]
Pending   == [st |-> "pending", val |-> "-"]

VARIABLES
    queue,       \* RateLimiter.queue: task ids, in push order
    processing,  \* RateLimiter.processing
    delay,       \* RateLimiter.delay
    loops,       \* processQueue activations suspended at an await
    promise,     \* promise[t]: state of the promise add() returned for task t
    nextId,      \* tasks are numbered in the order of their add() calls
    now,         \* Date.now()
    started,     \* history: the tasks that were called
    taskOut,     \* history: what task t itself returned or threw
    lastDone,    \* history: [at, delay] of the latest task completion:
                 \*   Date.now() and this.delay at that moment (at = -1: none)
    lastOp,      \* history: the latest operation on the RateLimiter
    cache,       \* CacheService.cache: normalized domain -> entry
    call,        \* call[c]: the checkDomain invocation number c
    batch,       \* batch[b]: a POST /api/check request and its loop
    lastFresh,   \* history: per domain, the latest call that returned a
                 \*   result of its own (not a cached copy) and when;
                 \*   call 0: none
    provider,    \* the service getDomainService() returns: fixed by the
                 \*   configuration the process started with
    lastReply,   \* history, kept by LookupReturns and AxiosReturns: how
                 \*   the whois transport or axios.get settled last
    cacheOp,     \* history: the latest direct call of a CacheService
                 \*   method, its key and what it returned
    argOf        \* history, kept by CheckSingle only: the argument each
                 \*   checkDomain invocation was called with

vars == <<queue, processing, delay, loops, promise, nextId, now,
          started, taskOut, lastDone, lastOp, cache, call, batch, lastFresh,
          provider, lastReply, cacheOp, argOf>>

svcVars == <<cache, call, batch, lastFresh, provider, lastReply, cacheOp, argOf>>

\* ------------------------------------------------------------ RateLimiter

\* a processQueue activation awaiting task(): line 36
TaskLoop(t) == [task |-> t, st |-> "task", ms |-> 0, began |-> now]
\* a processQueue activation awaiting sleep(ms): line 44
SleepLoop(t, ms) == [task |-> t, st |-> "sleep", ms |-> ms, began |-> now]

\* queue.shift(): line 33
Pop(q) == [item |-> q[Len(q)], rest |-> SubSeq(q, 1, Len(q) - 1)]
Shift(q) == [item |-> Head(q), rest |-> Tail(q)]

\* the early return of processQueue: line 26
BusyNoFlag(p, q) == Len(q) = 0
Busy(p, q) == p \/ Len(q) = 0

\* the while loop from its condition to the next await: lines 32-36.
\* q is the queue, ls the other suspended activations, p the flag.
WhileLoop(q, ls, p) ==
    IF Len(q) > 0
    THEN /\ queue' = Shift(q).rest
         /\ loops' = ls \cup {TaskLoop(Shift(q).item)}
         /\ processing' = p
         /\ started' = started \cup {Shift(q).item}
    ELSE /\ queue' = q
         /\ loops' = ls
         /\ processing' = FALSE
         /\ UNCHANGED started

\* processQueue() called with the queue holding q: lines 25-36
ProcessQueue(q) ==
    IF Busy(processing, q)
    THEN /\ queue' = q
         /\ UNCHANGED <<processing, loops, started>>
    ELSE WhileLoop(q, loops, TRUE)

\* add(task): push, then processQueue() synchronously: lines 15-20
RateLimiterAdd(t) ==
    /\ promise' = [promise EXCEPT ![t] = Pending]
    /\ ProcessQueue(Append(queue, t))

\* resolve(result) / reject(error): lines 37-39
Settle(out) == [st |-> IF out.ok THEN "resolved" ELSE "rejected", val |-> out.val]

\* the continuation of `await task()` for activation l, the task having
\* produced out: lines 36-46 up to the next await or the return
TaskDoneNoCatch(l, out) ==
    /\ taskOut' = [taskOut EXCEPT ![l.task] = out]
    /\ lastDone' = [at |-> now, delay |-> delay]
    /\ IF out.ok
       THEN /\ promise' = [promise EXCEPT ![l.task] = Settle(out)]
            /\ IF Len(queue) > 0
               THEN /\ loops' = (loops \ {l}) \cup {SleepLoop(l.task, delay)}
                    /\ UNCHANGED <<queue, processing, started>>
               ELSE WhileLoop(queue, loops \ {l}, processing)
       ELSE /\ loops' = loops \ {l}
            /\ UNCHANGED <<promise, queue, processing, started>>
TaskDoneConfiguredDelay(l, out) ==
    /\ taskOut' = [taskOut EXCEPT ![l.task] = out]
    /\ lastDone' = [at |-> now, delay |-> delay]
    /\ promise' = [promise EXCEPT ![l.task] = Settle(out)]
    /\ IF Len(queue) > 0
       THEN /\ loops' = (loops \ {l}) \cup {SleepLoop(l.task, RateLimitDelay)}
            /\ UNCHANGED <<queue, processing, started>>
       ELSE WhileLoop(queue, loops \ {l}, processing)
TaskDoneOneShot(l, out) ==
    /\ taskOut' = [taskOut EXCEPT ![l.task] = out]
    /\ lastDone' = [at |-> now, delay |-> delay]
    /\ promise' = [promise EXCEPT ![l.task] = Settle(out)]
    /\ loops' = loops \ {l}
    /\ processing' = FALSE
    /\ UNCHANGED <<queue, started>>
TaskDone(l, out) ==
    /\ taskOut' = [taskOut EXCEPT ![l.task] = out]
    /\ lastDone' = [at |-> now, delay |-> delay]
    /\ promise' = [promise EXCEPT ![l.task] = Settle(out)]
    /\ IF Len(queue) > 0
       THEN /\ loops' = (loops \ {l}) \cup {SleepLoop(l.task, delay)}
            /\ UNCHANGED <<queue, processing, started>>
       ELSE WhileLoop(queue, loops \ {l}, processing)

\* the continuation of `await this.sleep(...)`: back to the loop condition
Resume(l) == WhileLoop(queue, loops \ {l}, processing)

\* clear(): lines 69-71
ClearAbort(q, ls, p) == [queue |-> <<>>, loops |-> ls, processing |-> FALSE]
ClearQueue(q, ls, p) == [queue |-> <<>>, loops |-> ls, processing |-> p]

\* setDelay(delayMs): lines 77-79.  The timers already set keep their ms.
SetDelayRetro(ls, ms) ==
    [delay |-> ms,
     loops |-> {IF l.st = "sleep" THEN [l EXCEPT !.ms = ms] ELSE l : l \in ls}]
SetDelayTo(ls, ms) == [delay |-> ms, loops |-> ls]

\* getQueueSize(): lines 62-64
GetQueueSize == Len(queue)

\* ----------------------------------------------------------- CacheService

\* the strings callers pass to checkDomain, and what
\* domain.toLowerCase().trim() makes of them: whois.service.js line 16
Inputs == {"a.com", " A.Com ", "b.dev"}
NormalizeNothing(input) == input
Normalize(input) == IF input = " A.Com " THEN "a.com" ELSE input

\* what the service methods are also handed, nothing on the way checking
\* it: a string that is no domain name, and a value that is not a string
\* (NotAString stands for the number 123, which has no toLowerCase)
Malformed  == "a..com"
NotAString == "<123>"
AnyInputs  == Inputs \cup {Malformed, NotAString}
IsString(input) == input # NotAString

Domains == {Normalize(i) : i \in {x \in AnyInputs : IsString(x)}}

\* isValidDomainName(domain): fileParser.js lines 47-65; of the names
\* above only the one with two consecutive dots fails it
IsValidDomainName(d) == d # "" /\ d # Malformed

\* domain.substring(domain.lastIndexOf('.')): whois.service.js line 71
Extension(d) == IF d = "b.dev" THEN ".dev" ELSE ".com"

\* a result record; "-" is a field the record does not have.  checkedAt is
\* the clock value of new Date().toISOString().
NoResult == [domain |-> "-", available |-> "-", status |-> "-",
             fromCache |-> FALSE, error |-> "-", checkedAt |-> 0,
             provider |-> "-", price |-> "-"]
NoEntry  == [present |-> FALSE, value |-> NoResult, expiry |-> 0, createdAt |-> 0]

\* get(key) at time t: the value, or a miss that evicts an expired entry.
\* Returns the value read and the map as the read leaves it.
CacheGetNoExpiry(ch, k, t) ==
    IF ~ch[k].present
    THEN [hit |-> FALSE, value |-> NoResult, cache |-> ch]
    ELSE [hit |-> TRUE, value |-> ch[k].value, cache |-> ch]
CacheGetEvictEarly(ch, k, t) ==
    IF ~ch[k].present
    THEN [hit |-> FALSE, value |-> NoResult, cache |-> ch]
    ELSE IF t >= ch[k].expiry
         THEN [hit |-> FALSE, value |-> NoResult, cache |-> [ch EXCEPT ![k] = NoEntry]]
         ELSE [hit |-> TRUE, value |-> ch[k].value, cache |-> ch]
CacheGet(ch, k, t) ==
    IF ~ch[k].present
    THEN [hit |-> FALSE, value |-> NoResult, cache |-> ch]
    ELSE IF t > ch[k].expiry
         THEN [hit |-> FALSE, value |-> NoResult, cache |-> [ch EXCEPT ![k] = NoEntry]]
         ELSE [hit |-> TRUE, value |-> ch[k].value, cache |-> ch]

\* set(key, value, customTTL) at time t; customTTL 0 stands for null and
\* for 0, which both give the default: lines 36-45
CacheSetTTL(ch, k, v, t, customTTL) ==
    [ch EXCEPT ![k] = [present |-> TRUE, value |-> v,
                       expiry |-> t + (IF customTTL # 0 THEN customTTL ELSE CacheTTL),
                       createdAt |-> t]]

\* set(key, value) at time t with the default TTL
CacheSet(ch, k, v, t) ==
    [ch EXCEPT ![k] = [present |-> TRUE, value |-> v,
                       expiry |-> t + CacheTTL, createdAt |-> t]]

\* delete(key): lines 60-62
CacheDelete(ch, k) == [ch EXCEPT ![k] = NoEntry]

\* clear(): lines 67-69
CacheClear(ch) == [k \in DOMAIN ch |-> NoEntry]

\* cleanExpired() at time t: lines 74-81
CleanExpired(ch, t) ==
    [k \in DOMAIN ch |-> IF ch[k].present /\ t > ch[k].expiry THEN NoEntry ELSE ch[k]]

\* the values the cache is handed when its methods are called directly
CacheValues ==
    {[NoResult EXCEPT !.status = "available", !.available = "true"],
     [NoResult EXCEPT !.status = "registered", !.available = "false"]}

\* found: the map held an entry for the key when get read it
NoCacheOp == [op |-> "none", key |-> "-", found |-> FALSE, hit |-> FALSE,
              value |-> NoResult]

\* ----------------------------------------------------------- WhoisService

\* A reply of the whois transport.  A failure is the message of the error
\* it rejects with: its text and the lower-cased phrases of the two
\* vocabularies the text contains.  A success is the parsed object, given
\* by what isDomainAvailable looks at: whether it is null, the length of its
\* JSON text, and how many phrases of each vocabulary that text contains.
ErrorReplies ==
    {[kind |-> "error", text |-> "No match for domain", has |-> {"no match"}],
     [kind |-> "error", text |-> "ETIMEDOUT", has |-> {"etimedout"}],
     [kind |-> "error", text |-> "Domain not found: connection closed",
      has |-> {"not found", "domain not found", "connection"}],
     [kind |-> "error", text |-> "boom", has |-> {}]}
DataReplies ==
    [kind : {"data"}, null : {TRUE}, len : {0}, reg : {0}, av : {0}]
    \cup [kind : {"data"}, null : {FALSE}, len : {40, 100, 300}, reg : 0..2, av : 0..1]
Replies == ErrorReplies \cup DataReplies

notFoundPatterns ==
    {"no match", "not found", "no entries found", "no data found",
     "no se encontró", "domain not found"}
timeoutPatterns ==
    {"timeout", "timed out", "econnrefused", "enotfound", "etimedout",
     "connection", "socket hang up", "network"}
problematicTLDs == {".app", ".dev", ".page", ".new"}

IsNotFoundError(msg) == msg.has \cap notFoundPatterns # {}
IsTimeoutOrConnectionError(msg) == msg.has \cap timeoutPatterns # {}

\* isDomainAvailable(data, domain)
IsDomainAvailableAvailabilityFirst(data) ==
    IF data.null THEN TRUE
    ELSE IF data.len < 50 THEN TRUE
    ELSE IF data.av >= 1 THEN TRUE
    ELSE IF data.reg >= 1 THEN FALSE
    ELSE data.len < 200
IsDomainAvailableShortFirst(data) ==
    IF data.null THEN TRUE
    ELSE IF data.len < 200 THEN TRUE
    ELSE IF data.reg >= 1 THEN FALSE
    ELSE IF data.av >= 1 THEN TRUE
    ELSE FALSE
IsDomainAvailableScanFirst(data) ==
    IF data.null THEN TRUE
    ELSE IF data.reg >= 1 THEN FALSE
    ELSE IF data.av >= 1 THEN TRUE
    ELSE data.len < 200
IsDomainAvailableUpTo200(data) ==
    IF data.null THEN TRUE
    ELSE IF data.len < 50 THEN TRUE
    ELSE IF data.reg >= 1 THEN FALSE
    ELSE IF data.av >= 1 THEN TRUE
    ELSE data.len <= 200
IsDomainAvailableUnlessCached(data) ==
    IF \E d \in Domains : cache[d].present THEN FALSE
    ELSE IF data.null THEN TRUE
    ELSE IF data.len < 50 THEN TRUE
    ELSE IF data.reg >= 1 THEN FALSE
    ELSE IF data.av >= 1 THEN TRUE
    ELSE data.len < 200
IsDomainAvailableTwoNeeded(data) ==
    IF data.null THEN TRUE
    ELSE IF data.len < 50 THEN TRUE
    ELSE IF data.reg >= 2 THEN FALSE
    ELSE IF data.av >= 1 THEN TRUE
    ELSE data.len < 200
IsDomainAvailable(data) ==
    IF data.null THEN TRUE
    ELSE IF data.len < 50 THEN TRUE
    ELSE IF data.reg >= 1 THEN FALSE
    ELSE IF data.av >= 1 THEN TRUE
    ELSE data.len < 200

ManualCheckMessage(ext) ==
    "El TLD " \o ext \o " requiere verificación manual. WHOIS no disponible para esta extensión."

\* performWhoisLookup(domain) once the transport has replied: what the task
\* returns ({available}) or throws (the error's message)
PerformWhoisLookupTimeoutFirst(d, reply) ==
    IF reply.kind = "data"
    THEN [ok |-> TRUE, val |-> IF IsDomainAvailable(reply) THEN "true" ELSE "false"]
    ELSE IF IsTimeoutOrConnectionError(reply) /\ Extension(d) \in problematicTLDs
         THEN [ok |-> FALSE, val |-> ManualCheckMessage(Extension(d))]
         ELSE IF IsNotFoundError(reply)
              THEN [ok |-> TRUE, val |-> "true"]
              ELSE [ok |-> FALSE, val |-> reply.text]
PerformWhoisLookupNoSpecialTLD(d, reply) ==
    IF reply.kind = "data"
    THEN [ok |-> TRUE, val |-> IF IsDomainAvailable(reply) THEN "true" ELSE "false"]
    ELSE IF IsNotFoundError(reply)
         THEN [ok |-> TRUE, val |-> "true"]
         ELSE [ok |-> FALSE, val |-> reply.text]
PerformWhoisLookupAnyTLD(d, reply) ==
    IF reply.kind = "data"
    THEN [ok |-> TRUE, val |-> IF IsDomainAvailable(reply) THEN "true" ELSE "false"]
    ELSE IF IsNotFoundError(reply)
         THEN [ok |-> TRUE, val |-> "true"]
         ELSE IF IsTimeoutOrConnectionError(reply)
              THEN [ok |-> FALSE, val |-> ManualCheckMessage(Extension(d))]
              ELSE [ok |-> FALSE, val |-> reply.text]
PerformWhoisLookup(d, reply) ==
    IF reply.kind = "data"
    THEN [ok |-> TRUE, val |-> IF IsDomainAvailable(reply) THEN "true" ELSE "false"]
    ELSE IF IsNotFoundError(reply)
         THEN [ok |-> TRUE, val |-> "true"]
         ELSE IF IsTimeoutOrConnectionError(reply) /\ Extension(d) \in problematicTLDs
              THEN [ok |-> FALSE, val |-> ManualCheckMessage(Extension(d))]
              ELSE [ok |-> FALSE, val |-> reply.text]

\* a checkDomain invocation: where it is (none, wait: awaiting its task,
\* axios: awaiting the HTTP request, done: returned res, threw: its promise
\* was rejected), its normalized domain and, as history, whether its
\* cache read found an entry that had expired
NoCall == [pc |-> "none", dom |-> "-", res |-> NoResult, stale |-> FALSE]
Threw  == [pc |-> "threw", dom |-> "-", res |-> NoResult, stale |-> FALSE]

\* the record checkDomain builds from the settled promise p of its task:
\* whois.service.js lines 33-60
DomainResult(d, p) ==
    IF p.st = "resolved"
    THEN [domain |-> d,
          available |-> p.val,
          status |-> IF p.val = "true" THEN "available" ELSE "registered",
          fromCache |-> FALSE,
          error |-> "-",
          checkedAt |-> now, provider |-> "-", price |-> "-"]
    ELSE [domain |-> d,
          available |-> "null",
          status |-> "error",
          fromCache |-> FALSE,
          error |-> p.val,
          checkedAt |-> now, provider |-> "-", price |-> "-"]

\* { ...cached, fromCache: true }: whois.service.js lines 21-24,
\* godaddy.service.js lines 28-31
CachedCopySame(v) == v
CachedCopy(v) == [v EXCEPT !.fromCache = TRUE]

\* checkDomain(input), invocation c, up to its first await or its return
\* on a cache hit: whois.service.js lines 12-31
CheckDomainStart(c, input) ==
    IF ~IsString(input)
    THEN \* domain.toLowerCase is not a function: line 16, outside the try
         /\ call' = [call EXCEPT ![c] = Threw]
         /\ UNCHANGED <<cache, queue, processing, loops, promise, started, lastOp>>
    ELSE
    LET d == Normalize(input)
        g == CacheGet(cache, d, now)
    IN  /\ cache' = g.cache
        /\ IF g.hit
           THEN /\ call' = [call EXCEPT ![c] =
                        [pc |-> "done", dom |-> d, res |-> CachedCopy(g.value),
                         stale |-> FALSE]]
                /\ UNCHANGED <<queue, processing, loops, promise, started, lastOp>>
           ELSE /\ call' = [call EXCEPT ![c] =
                        [pc |-> "wait", dom |-> d, res |-> NoResult,
                         stale |-> cache[d].present]]
                /\ RateLimiterAdd(c)
                /\ lastOp' = "add"

\* checkDomain, invocation c, from the settling of its task's promise to
\* its return: whois.service.js lines 33-61
CheckDomainFinishNoStore(c) ==
    /\ call' = [call EXCEPT ![c] = [@ EXCEPT !.pc = "done",
                    !.res = DomainResult(call[c].dom, promise[c])]]
    /\ UNCHANGED cache
CheckDomainFinishStoreAll(c) ==
    /\ call' = [call EXCEPT ![c] = [@ EXCEPT !.pc = "done",
                    !.res = DomainResult(call[c].dom, promise[c])]]
    /\ cache' = CacheSet(cache, call[c].dom, DomainResult(call[c].dom, promise[c]), now)
CheckDomainFinishKeepFirst(c) ==
    /\ call' = [call EXCEPT ![c] = [@ EXCEPT !.pc = "done",
                    !.res = DomainResult(call[c].dom, promise[c])]]
    /\ cache' = IF promise[c].st = "resolved" /\ ~cache[call[c].dom].present
                THEN CacheSet(cache, call[c].dom, DomainResult(call[c].dom, promise[c]), now)
                ELSE cache
CheckDomainFinish(c) ==
    /\ call' = [call EXCEPT ![c] = [@ EXCEPT !.pc = "done",
                    !.res = DomainResult(call[c].dom, promise[c])]]
    /\ cache' = IF promise[c].st = "resolved"
                THEN CacheSet(cache, call[c].dom, DomainResult(call[c].dom, promise[c]), now)
                ELSE cache

\* --------------------------------------------------------- GoDaddyService

Providers == {"whois", "godaddy"}

\* How axios.get settles.  A response carries the body's available (which
\* the body may lack) and price; an error carries the HTTP status of its
\* response (0: there was no response) and its message.
AxiosReplies ==
    [kind : {"response"}, status : {200}, available : {"true", "false", "undefined"},
     price : {"null", "p1"}, message : {"-"}]
    \cup [kind : {"error"}, status : {0, 400, 401, 422, 429, 500}, available : {"-"},
          price : {"-"}, message : {"Request failed", ""}]

\* the error field of the result for a failed request:
\* godaddy.service.js lines 77-152
GoDaddyErrorMessageKeys(reply) ==
    IF reply.status = 400 \/ reply.status = 401
    THEN "API keys inválidas (¿estás usando keys de OTE en lugar de Production?)"
    ELSE IF reply.status = 429
    THEN "Límite de requests excedido. Espera un momento."
    ELSE IF reply.status = 422
    THEN "Formato de dominio inválido"
    ELSE IF reply.message # "" THEN reply.message ELSE "Error desconocido"
GoDaddyErrorMessage(reply) ==
    IF reply.status = 400
    THEN "API keys inválidas (¿estás usando keys de OTE en lugar de Production?)"
    ELSE IF reply.status = 401
    THEN "API Key de GoDaddy inválida. Verifica tu configuración."
    ELSE IF reply.status = 429
    THEN "Límite de requests excedido. Espera un momento."
    ELSE IF reply.status = 422
    THEN "Formato de dominio inválido"
    ELSE IF reply.message # "" THEN reply.message ELSE "Error desconocido"

\* the record GoDaddyService.checkDomain returns once axios has settled:
\* godaddy.service.js lines 44-58 and 67-152
GoDaddyResult(d, reply) ==
    IF reply.kind = "response"
    THEN [domain |-> d,
          available |-> reply.available,
          status |-> IF reply.available = "true" THEN "available" ELSE "registered",
          fromCache |-> FALSE,
          error |-> "-",
          checkedAt |-> now, provider |-> "godaddy", price |-> reply.price]
    ELSE [domain |-> d,
          available |-> "null",
          status |-> "error",
          fromCache |-> FALSE,
          error |-> GoDaddyErrorMessage(reply),
          checkedAt |-> now, provider |-> "godaddy", price |-> "-"]

\* GoDaddyService.checkDomain(input), invocation c, up to its await or its
\* return on a cache hit: godaddy.service.js lines 19-42
GoDaddyCheckDomainStart(c, input) ==
    IF ~IsString(input)
    THEN /\ call' = [call EXCEPT ![c] = Threw]
         /\ UNCHANGED cache
    ELSE
    LET d == Normalize(input)
        g == CacheGet(cache, d, now)
    IN  /\ cache' = g.cache
        /\ call' = [call EXCEPT ![c] =
                IF g.hit
                THEN [pc |-> "done", dom |-> d, res |-> CachedCopy(g.value),
                      stale |-> FALSE]
                ELSE [pc |-> "axios", dom |-> d, res |-> NoResult,
                      stale |-> cache[d].present]]

\* GoDaddyService.checkDomain, invocation c, from the settling of axios.get
\* to its return: lines 44-65 and 67-153
GoDaddyCheckDomainFinish(c, reply) ==
    /\ call' = [call EXCEPT ![c] = [@ EXCEPT !.pc = "done",
                    !.res = GoDaddyResult(call[c].dom, reply)]]
    /\ cache' = IF reply.kind = "response"
                THEN CacheSet(cache, call[c].dom, GoDaddyResult(call[c].dom, reply), now)
                ELSE cache
    /\ lastFresh' = [lastFresh EXCEPT ![call[c].dom] = [call |-> c, at |-> now]]

\* checkDomain of the service in use
CheckDomain(c, input) ==
    IF provider = "godaddy"
    THEN /\ GoDaddyCheckDomainStart(c, input)
         /\ UNCHANGED <<queue, processing, loops, promise, started, lastOp>>
    ELSE CheckDomainStart(c, input)

Batches == 1..MaxBatches
\* a request: its list has n entries, entry i is being resolved by call cur
\* progress: the progress reports made so far (onProgress calls, or the
\* progress events written to the response), as <<current, total>>
NoBatch == [pc |-> "idle", n |-> 0, i |-> 0, cur |-> 0, results |-> <<>>,
            progress |-> <<>>]
NoFresh == [call |-> 0, at |-> 0]
NoReply == [kind |-> "none"]

\* ---------------------------------------------------------------- actions

\* the modules as loaded, whatever the configuration
Boot ==
    /\ queue = <<>>
    /\ processing = FALSE
    /\ delay = RateLimitDelay
    /\ loops = {}
    /\ promise = [t \in Tasks |-> NoPromise]
    /\ nextId = 1
    /\ now = 0
    /\ started = {}
    /\ taskOut = [t \in Tasks |-> NoOutcome]
    /\ lastDone = [at |-> -1, delay |-> 0]
    /\ lastOp = "init"
    /\ cache = [d \in Domains |-> NoEntry]
    /\ call = [c \in Tasks |-> NoCall]
    /\ batch = [b \in Batches |-> NoBatch]
    /\ lastFresh = [d \in Domains |-> NoFresh]
    /\ lastReply = NoReply
    /\ cacheOp = NoCacheOp
    /\ argOf = [c \in Tasks |-> "-"]

\* the process configured for WHOIS (GoDaddy not configured)
Init == Boot /\ provider = "whois"

\* the process configured for either service
AnyInit == Boot /\ provider \in Providers

\* some caller submits a new task
Add ==
    /\ nextId <= MaxTasks
    /\ RateLimiterAdd(nextId)
    /\ nextId' = nextId + 1
    /\ lastOp' = "add"
    /\ UNCHANGED <<delay, now, taskOut, lastDone, svcVars>>

\* the running task returns or throws
TaskComplete ==
    \E l \in loops : \E out \in Outcomes :
        /\ l.st = "task"
        /\ TaskDone(l, out)
        /\ lastOp' = "done"
        /\ UNCHANGED <<delay, nextId, now, svcVars>>

\* the timer of a sleep fires
SleepDone ==
    \E l \in loops :
        /\ l.st = "sleep"
        /\ now >= l.began + l.ms
        /\ Resume(l)
        /\ lastOp' = "wake"
        /\ UNCHANGED <<delay, promise, nextId, now, taskOut, lastDone, svcVars>>

\* the timer of a sleep fires, with the clock left out: a setTimeout
\* callback is eventually run whatever its delay
TimerFires ==
    \E l \in loops :
        /\ l.st = "sleep"
        /\ Resume(l)
        /\ lastOp' = "wake"
        /\ UNCHANGED <<delay, promise, nextId, now, taskOut, lastDone, svcVars>>

Clear ==
    /\ queue' = ClearQueue(queue, loops, processing).queue
    /\ loops' = ClearQueue(queue, loops, processing).loops
    /\ processing' = ClearQueue(queue, loops, processing).processing
    /\ lastOp' = "clear"
    /\ UNCHANGED <<delay, promise, nextId, now, started, taskOut, lastDone, svcVars>>

SetDelay ==
    \E ms \in Delays :
        /\ delay' = SetDelayTo(loops, ms).delay
        /\ loops' = SetDelayTo(loops, ms).loops
        /\ lastOp' = "setDelay"
        /\ UNCHANGED <<queue, processing, promise, nextId, now, started, taskOut,
                       lastDone, svcVars>>

Tick ==
    /\ now < MaxTime
    /\ now' = now + 1
    /\ UNCHANGED <<queue, processing, delay, loops, promise, nextId,
                   started, taskOut, lastDone, lastOp, svcVars>>

Next == Add \/ TaskComplete \/ SleepDone \/ Clear \/ SetDelay \/ Tick

Spec == Init /\ [][Next]_vars

\* ------------------------------------------------- actions of the service

\* POST /api/check: install the requested delay, then the loop up to its
\* first await (domain.routes.js lines 82-118).  req = 0 stands for a
\* request without a usable delay (absent, not a number, or below 1000).
\* The entries of the list are drawn one by one as the loop reaches them.
\* getDomainService() is taken to return the whois provider.
\* A new request is numbered with the lowest number not in use.
PostCheck(b) ==
    \E n \in 1..MaxBatchLen : \E input \in Inputs : \E req \in Delays :
        /\ batch[b].pc \in {"idle", "done"}
        /\ \A b2 \in 1..(b - 1) : batch[b2].pc = "await"
        /\ nextId <= MaxCalls
        /\ delay' = IF req >= 1 THEN SetDelayTo(loops, req).delay ELSE delay
        /\ CheckDomainStart(nextId, input)
        /\ batch' = [batch EXCEPT ![b] =
                [pc |-> "await", n |-> n, i |-> 1, cur |-> nextId, results |-> <<>>,
                 progress |-> <<>>]]
        /\ nextId' = nextId + 1
        /\ UNCHANGED <<now, taskOut, lastDone, lastFresh, provider, lastReply, cacheOp, argOf>>

\* the loop of POST /api/check (and of checkMultipleDomains) from the
\* return of one checkDomain to the next await or to the end
BatchContinue(b) ==
    /\ batch[b].pc = "await"
    /\ call[batch[b].cur].pc = "done"
    /\ IF batch[b].i < batch[b].n
       THEN /\ nextId <= MaxCalls
            /\ \E input \in Inputs : CheckDomainStart(nextId, input)
            /\ batch' = [batch EXCEPT ![b] = [@ EXCEPT
                    !.i = @ + 1, !.cur = nextId,
                    !.results = Append(@, batch[b].cur),
                    !.progress = Append(@, <<batch[b].i, batch[b].n>>)]]
            /\ nextId' = nextId + 1
            /\ UNCHANGED <<delay, now, taskOut, lastDone, lastFresh, provider, lastReply, cacheOp, argOf>>
       ELSE /\ batch' = [batch EXCEPT ![b] = [@ EXCEPT
                    !.pc = "done", !.cur = 0,
                    !.results = Append(@, batch[b].cur),
                    !.progress = Append(@, <<batch[b].i, batch[b].n>>)]]
            /\ UNCHANGED <<queue, processing, delay, loops, promise, nextId, now,
                           started, taskOut, lastDone, lastOp, cache, call, lastFresh,
                           provider, lastReply, cacheOp, argOf>>

\* the whois transport settles the lookup in flight with reply; the task
\* settles and processQueue goes on
WhoisReply(l, reply) ==
    /\ l.st = "task"
    /\ call[l.task].pc = "wait"
    /\ TaskDone(l, PerformWhoisLookup(call[l.task].dom, reply))
    /\ lastOp' = "done"
    /\ UNCHANGED <<delay, nextId, now, cache, call, batch, lastFresh, provider,
                   cacheOp, argOf>>

WhoisReturns ==
    \E l \in loops : \E reply \in Replies :
        WhoisReply(l, reply) /\ UNCHANGED lastReply

\* the same, the reply being kept as history
LookupReturns ==
    \E l \in loops : \E reply \in Replies :
        WhoisReply(l, reply) /\ lastReply' = reply

\* checkDomain resumes after `await rateLimiter.add(...)` and returns
CheckDomainReturn ==
    \E c \in Tasks :
        /\ call[c].pc = "wait"
        /\ promise[c].st \in {"resolved", "rejected"}
        /\ CheckDomainFinish(c)
        /\ lastFresh' = [lastFresh EXCEPT ![call[c].dom] = [call |-> c, at |-> now]]
        /\ UNCHANGED <<queue, processing, delay, loops, promise, nextId, now,
                       started, taskOut, lastDone, lastOp, batch, provider, lastReply, cacheOp, argOf>>

\* any number of requests at a time, the clock left out
SvcNext ==
    \/ \E b \in Batches : PostCheck(b)
    \/ \E b \in Batches : BatchContinue(b)
    \/ WhoisReturns
    \/ CheckDomainReturn
    \/ TimerFires

SvcSpec == Init /\ [][SvcNext]_vars

\* one request after the other, with the clock.  A single caller awaits
\* each checkDomain before the next, so the queue is empty whenever a task
\* completes and processQueue never reaches its sleep (SeqNeverSleeps):
\* no timer is ever set and SleepDone has nothing to do here.
SeqNext ==
    \/ PostCheck(1)
    \/ BatchContinue(1)
    \/ WhoisReturns
    \/ CheckDomainReturn
    \/ Tick

SeqSpec == Init /\ [][SeqNext]_vars

\* ------------------------------------------- CacheService, called directly

CacheGetOp ==
    \E k \in Domains :
        LET g == CacheGet(cache, k, now)
        IN  /\ cache' = g.cache
            /\ cacheOp' = [op |-> "get", key |-> k, found |-> cache[k].present,
                           hit |-> g.hit, value |-> g.value]

CacheSetOp ==
    \E k \in Domains : \E v \in CacheValues : \E customTTL \in {0, 1} :
        /\ cache' = CacheSetTTL(cache, k, v, now, customTTL)
        /\ cacheOp' = [NoCacheOp EXCEPT !.op = "set", !.key = k]

CacheDeleteOp ==
    \E k \in Domains :
        /\ cache' = CacheDelete(cache, k)
        /\ cacheOp' = [NoCacheOp EXCEPT !.op = "delete", !.key = k]

\* clear(), as DELETE /api/cache calls it
CacheClearOp ==
    /\ cache' = CacheClear(cache)
    /\ cacheOp' = [NoCacheOp EXCEPT !.op = "clear"]

\* cleanExpired(), as the hourly timer calls it
CleanExpiredOp ==
    /\ cache' = CleanExpired(cache, now)
    /\ cacheOp' = [NoCacheOp EXCEPT !.op = "cleanExpired"]

CacheStep ==
    /\ CacheGetOp \/ CacheSetOp \/ CacheDeleteOp \/ CacheClearOp \/ CleanExpiredOp
    /\ UNCHANGED <<queue, processing, delay, loops, promise, nextId, now, started,
                   taskOut, lastDone, lastOp, call, batch, lastFresh, provider,
                   lastReply, argOf>>

CacheNext == CacheStep \/ Tick

CacheSpec == Init /\ [][CacheNext]_vars

\* --------------------------------------- checkMultipleDomains, any service

\* checkMultipleDomains(domains, onProgress) of the service in use, up to
\* its first await, or to its return for an empty list: whois.service.js
\* lines 265-271, godaddy.service.js lines 162-168.  One invocation at a
\* time; the entries are drawn as the loop reaches them.  The clock is
\* left out of this specification.
CheckMultipleDomains ==
    \E n \in 0..MaxBatchLen :
        /\ batch[1].pc \in {"idle", "done", "threw"}
        /\ nextId <= MaxCalls
        /\ IF n = 0
           THEN /\ batch' = [batch EXCEPT ![1] = [NoBatch EXCEPT !.pc = "done"]]
                /\ UNCHANGED <<queue, processing, loops, promise, nextId, started,
                               lastOp, cache, call>>
           ELSE /\ \E input \in AnyInputs : CheckDomain(nextId, input)
                /\ batch' = [batch EXCEPT ![1] =
                        [pc |-> "await", n |-> n, i |-> 1, cur |-> nextId,
                         results |-> <<>>, progress |-> <<>>]]
                /\ nextId' = nextId + 1
        /\ UNCHANGED <<delay, now, taskOut, lastDone, lastFresh, provider, lastReply, cacheOp, argOf>>

\* results.push(result): whois.service.js line 272
PushFront(rs, c) == <<c>> \o rs
Push(rs, c) == Append(rs, c)

\* `await this.checkDomain(domain)` throws: the promise of invocation c
\* was rejected
RejectedOrError(c) ==
    call[c].pc = "threw" \/ (call[c].pc = "done" /\ call[c].res.status = "error")
Rejected(c) == call[c].pc = "threw"

\* the loop after `await this.checkDomain(domain)`: the result is pushed
\* and reported, then the next entry is taken or the list returned
\* (whois.service.js lines 271-285); GoDaddyService first sleeps 100 ms
\* (godaddy.service.js lines 181-184).  A rejected checkDomain rejects
\* checkMultipleDomains.
MultiContinue ==
    LET b    == batch[1]
        more == [b EXCEPT !.results = Push(@, b.cur),
                          !.progress = Append(@, <<b.i, b.n>>)]
    IN  /\ b.pc = "await"
        /\ call[b.cur].pc \in {"done", "threw"}
        /\ IF Rejected(b.cur)
           THEN /\ batch' = [batch EXCEPT ![1] = [b EXCEPT !.pc = "threw", !.cur = 0]]
                /\ UNCHANGED <<queue, processing, loops, promise, nextId, started,
                               lastOp, cache, call>>
           ELSE IF b.i = b.n
           THEN /\ batch' = [batch EXCEPT ![1] = [more EXCEPT !.pc = "done", !.cur = 0]]
                /\ UNCHANGED <<queue, processing, loops, promise, nextId, started,
                               lastOp, cache, call>>
           ELSE IF provider = "godaddy"
           THEN /\ batch' = [batch EXCEPT ![1] = [more EXCEPT !.pc = "pause", !.cur = 0]]
                /\ UNCHANGED <<queue, processing, loops, promise, nextId, started,
                               lastOp, cache, call>>
           ELSE /\ nextId <= MaxCalls
                /\ \E input \in AnyInputs : CheckDomain(nextId, input)
                /\ batch' = [batch EXCEPT ![1] = [more EXCEPT !.i = @ + 1, !.cur = nextId]]
                /\ nextId' = nextId + 1
        /\ UNCHANGED <<delay, now, taskOut, lastDone, lastFresh, provider, lastReply, cacheOp, argOf>>

\* the 100 ms timer of GoDaddyService.checkMultipleDomains fires (less
\* than one unit of the clock): the loop takes the next entry
PauseDone ==
    /\ batch[1].pc = "pause"
    /\ nextId <= MaxCalls
    /\ \E input \in AnyInputs : CheckDomain(nextId, input)
    /\ batch' = [batch EXCEPT ![1] = [@ EXCEPT !.pc = "await", !.i = @ + 1,
                                                !.cur = nextId]]
    /\ nextId' = nextId + 1
    /\ UNCHANGED <<delay, now, taskOut, lastDone, lastFresh, provider, lastReply, cacheOp, argOf>>

\* axios.get settles and GoDaddyService.checkDomain returns; the reply is
\* kept as history
AxiosReturns ==
    \E c \in Tasks : \E reply \in AxiosReplies :
        /\ call[c].pc = "axios"
        /\ GoDaddyCheckDomainFinish(c, reply)
        /\ lastReply' = reply
        /\ UNCHANGED <<queue, processing, delay, loops, promise, nextId, now,
                       started, taskOut, lastDone, lastOp, batch, provider, cacheOp, argOf>>

AppNext ==
    \/ CheckMultipleDomains
    \/ MultiContinue
    \/ PauseDone
    \/ LookupReturns
    \/ CheckDomainReturn
    \/ AxiosReturns

AppSpec == AnyInit /\ [][AppNext]_vars

\* ---------------------------------------- POST /api/check, either service

\* delays in units of 1000 ms: the least delay the route installs
\* (domain.routes.js line 94) and the greatest the documentation allows
\* (README.md line 78)
MinRequestDelay == 1
DocumentedMaxDelay == 5

\* the delay of a request body; 0 stands for one the route does not use
\* (absent, not a number, or below 1000)
RequestDelays == {0, MinRequestDelay, DocumentedMaxDelay, DocumentedMaxDelay + 1}

\* POST /api/check with the service getDomainService() returns: the
\* requested delay is installed, then the loop runs up to its first
\* await (domain.routes.js lines 82-118).  One request at a time; the
\* entries of the list are drawn as the loop reaches them.
RouteCheck ==
    \E n \in 1..MaxBatchLen : \E input \in AnyInputs : \E req \in RequestDelays :
        /\ batch[1].pc \in {"idle", "done", "threw"}
        /\ nextId <= MaxCalls
        /\ delay' = IF req >= MinRequestDelay THEN SetDelayTo(loops, req).delay ELSE delay
        /\ CheckDomain(nextId, input)
        /\ batch' = [batch EXCEPT ![1] =
                [pc |-> "await", n |-> n, i |-> 1, cur |-> nextId, results |-> <<>>,
                 progress |-> <<>>]]
        /\ nextId' = nextId + 1
        /\ UNCHANGED <<now, taskOut, lastDone, lastFresh, provider, lastReply, cacheOp, argOf>>

\* the summary of the 'complete' event for the results rs (invocations):
\* domain.routes.js lines 135-139
Summary(rs) ==
    [available  |-> Cardinality({i \in 1..Len(rs) : call[rs[i]].res.available = "true"}),
     registered |-> Cardinality({i \in 1..Len(rs) : call[rs[i]].res.available = "false"}),
     errors     |-> Cardinality({i \in 1..Len(rs) : call[rs[i]].res.status = "error"})]

\* the loop of the route after `await domainService.checkDomain(domain)`:
\* the result is pushed and a progress event written, then the next
\* entry is taken, or the 'complete' event written with the results and
\* Summary(results) (lines 116-143); a rejected checkDomain ends the
\* request with an 'error' event (lines 145-151)
RouteContinue ==
    LET b    == batch[1]
        more == [b EXCEPT !.results = Push(@, b.cur),
                          !.progress = Append(@, <<b.i, b.n>>)]
    IN  /\ b.pc = "await"
        /\ call[b.cur].pc \in {"done", "threw"}
        /\ IF Rejected(b.cur)
           THEN /\ batch' = [batch EXCEPT ![1] = [b EXCEPT !.pc = "threw", !.cur = 0]]
                /\ UNCHANGED <<queue, processing, loops, promise, nextId, started,
                               lastOp, cache, call>>
           ELSE IF b.i = b.n
           THEN /\ batch' = [batch EXCEPT ![1] = [more EXCEPT !.pc = "done", !.cur = 0]]
                /\ UNCHANGED <<queue, processing, loops, promise, nextId, started,
                               lastOp, cache, call>>
           ELSE /\ nextId <= MaxCalls
                /\ \E input \in AnyInputs : CheckDomain(nextId, input)
                /\ batch' = [batch EXCEPT ![1] = [more EXCEPT !.i = @ + 1, !.cur = nextId]]
                /\ nextId' = nextId + 1
        /\ UNCHANGED <<delay, now, taskOut, lastDone, lastFresh, provider, lastReply, cacheOp, argOf>>

RouteNext ==
    \/ RouteCheck
    \/ RouteContinue
    \/ WhoisReturns
    \/ CheckDomainReturn
    \/ AxiosReturns

RouteSpec == AnyInit /\ [][RouteNext]_vars

\* ------------------------------------------------- POST /api/check-single

\* POST /api/check-single with a string as its domain (anything else is
\* answered 400 before the service is reached): checkDomain of the service
\* in use is called with it (domain.routes.js lines 158-171).  One request
\* at a time; the argument is kept as history in argOf.
CheckSingle ==
    \E input \in Inputs :
        /\ \A c \in Tasks : call[c].pc \in {"none", "done"}
        /\ nextId <= MaxCalls
        /\ CheckDomain(nextId, input)
        /\ nextId' = nextId + 1
        /\ argOf' = [argOf EXCEPT ![nextId] = input]
        /\ UNCHANGED <<delay, now, taskOut, lastDone, batch, lastFresh, provider,
                       lastReply, cacheOp>>

SingleNext ==
    \/ CheckSingle
    \/ WhoisReturns
    \/ CheckDomainReturn
    \/ AxiosReturns
    \/ Tick

SingleSpec == AnyInit /\ [][SingleNext]_vars

\* ------------------------------------------------------- isDomainAvailable

\* The objects the whois transport may resolve with, by what
\* isDomainAvailable looks at, with lengths on both sides of its two
\* thresholds.  A text of 2 characters ("{}") holds no phrase.
Lengths == {2, 49, 50, 199, 200, 300}
Responses ==
    [kind : {"data"}, null : {TRUE}, len : {0}, reg : {0}, av : {0}]
    \cup {r \in [kind : {"data"}, null : {FALSE}, len : Lengths, reg : 0..2, av : 0..1] :
              r.len = 2 => (r.reg = 0 /\ r.av = 0)}

\* checkDomain(input) has been called on the modules as loaded and its
\* lookup is awaiting the transport, which is about to resolve with the
\* object kept in lastReply: whois.service.js lines 12-31 and 83
ClassifyInit ==
    \E input \in Inputs :
        /\ now = 0
        /\ queue = <<>>
        /\ processing = TRUE
        /\ delay = RateLimitDelay
        /\ loops = {TaskLoop(1)}
        /\ promise = [t \in Tasks |-> IF t = 1 THEN Pending ELSE NoPromise]
        /\ nextId = 2
        /\ started = {1}
        /\ taskOut = [t \in Tasks |-> NoOutcome]
        /\ lastDone = [at |-> -1, delay |-> 0]
        /\ lastOp = "add"
        /\ cache = [d \in Domains |-> NoEntry]
        /\ call = [c \in Tasks |->
                     IF c = 1
                     THEN [pc |-> "wait", dom |-> Normalize(input), res |-> NoResult,
                           stale |-> FALSE]
                     ELSE NoCall]
        /\ batch = [b \in Batches |-> NoBatch]
        /\ lastFresh = [d \in Domains |-> NoFresh]
        /\ provider = "whois"
        /\ lastReply \in Responses
        /\ cacheOp = NoCacheOp
        /\ argOf = [c \in Tasks |-> IF c = 1 THEN input ELSE "-"]

\* `const data = await whois(...)` resumes with the object and
\* performWhoisLookup returns {available: isDomainAvailable(data, domain)}:
\* whois.service.js lines 83-88
Classify ==
    \E l \in loops :
        /\ lastReply.kind = "data"
        /\ WhoisReply(l, lastReply)
        /\ UNCHANGED lastReply

ClassifyNext ==
    \/ Classify
    \/ CheckDomainReturn

ClassifySpec == ClassifyInit /\ [][ClassifyNext]_vars

SeqNeverSleeps == \A l \in loops : l.st # "sleep"

TypeOK ==
    /\ queue \in Seq(Tasks)
    /\ processing \in BOOLEAN
    /\ delay \in Delays
    /\ \A t \in Tasks : promise[t].st \in {"none", "pending", "resolved", "rejected"}
    /\ \A c \in Tasks : call[c].pc \in {"none", "wait", "axios", "done", "threw"}
    /\ \A b \in Batches : batch[b].pc \in {"idle", "await", "pause", "done", "threw"}
    /\ provider \in Providers
    /\ nextId \in 1..(MaxTasks + 1)
    /\ now \in Times

FairNext == Add \/ TaskComplete \/ TimerFires \/ Clear \/ SetDelay

\* a task that was called terminates, and a timer that was set fires
FairSpec == Init /\ [][FairNext]_vars /\ WF_vars(TaskComplete) /\ WF_vars(TimerFires)

\* ----------------------------------------------------------- derived sets

Added      == 1..(nextId - 1)
Running    == {l.task : l \in {x \in loops : x.st = "task"}}
Sleeping   == {l \in loops : l.st = "sleep"}
Queued     == {queue[i] : i \in 1..Len(queue)}
Settled(t) == promise[t].st \in {"resolved", "rejected"}
Finished   == {t \in Tasks : taskOut[t] # NoOutcome}
\* tasks whose queue entry was thrown away by clear()
Dropped    == {t \in Added : t \notin Queued /\ t \notin started}

\* ------------------------------------------------------------------ claims

\* C1: at most one submitted task has started and not yet completed, in
\* every interleaving of add() with running tasks and sleeps.
C1_AtMostOneRunning == Cardinality(started \ Finished) <= 1

\* add() was called while a task was running, and the new task waits
C1_Witness == lastOp = "add" /\ Running # {} /\ Len(queue) > 0

\* C2: tasks start in the order of their add() calls: from the moment a
\* task is started, no task added before it is still waiting or still
\* running, so an earlier task that is executed started and completed
\* before it.
C2_FifoStart ==
    \A a, b \in Tasks :
        (a < b /\ b \in started) =>
            /\ a \notin Queued
            /\ a \in started => a \in Finished

\* two tasks were executed one after the other and the third, which waited
\* in the queue, has just been started after the sleep
C2_Witness ==
    /\ {1, 2} \subseteq Finished
    /\ 3 \in Running
    /\ lastOp = "wake"

\* C3: completion times increase and two consecutive completions are at
\* least the configured delay apart (the delay in force when the earlier of
\* the two completed), also for a task submitted to an idle scheduler.
C3_CompletionsSpaced ==
    [][(lastDone' # lastDone /\ lastDone.at # -1)
          => lastDone'.at - lastDone.at >= lastDone.delay]_vars

\* C5: a task that throws rejects its own promise with the error it threw,
\* no other promise changes, nothing is removed from the queue, and with
\* tasks still waiting the scheduler stays active (asleep before the next).
C5_FailureIsolated ==
    [][\A l \in loops :
          (l.st = "task" /\ taskOut'[l.task] # taskOut[l.task] /\ ~taskOut'[l.task].ok)
          => /\ promise'[l.task] = [st |-> "rejected", val |-> taskOut'[l.task].val]
             /\ \A u \in Tasks \ {l.task} : promise'[u] = promise[u]
             /\ queue' = queue
             /\ queue # <<>> => (processing' /\ \E s \in loops' : s.st = "sleep")
      ]_vars

\* the first task has just failed with two tasks queued behind it
C5_Witness ==
    /\ lastOp = "done"
    /\ promise[1].st = "rejected"
    /\ queue = <<2, 3>>
    /\ Sleeping # {}

\* C6: every promise returned by add() is eventually resolved or rejected,
\* also when clear() is called while its task waits in the queue.
C6_EveryPromiseSettles ==
    \A t \in Tasks : (promise[t].st = "pending") ~> Settled(t)

\* C7: clear() empties the queue and touches nothing else: the executing
\* task, the promises and the processing flag are as before; the executing
\* task then settles its promise with its own outcome, the scheduler goes
\* idle, and an add() to the idle scheduler starts its task at once.
C7_ClearKeepsRunning ==
    [][/\ lastOp' = "clear" =>
            /\ GetQueueSize' = 0
            /\ loops' = loops
            /\ promise' = promise
            /\ processing' = processing
       /\ \A l \in loops :
            (l.st = "task" /\ l.task \in Finished') =>
                /\ promise'[l.task] = Settle(taskOut'[l.task])
                /\ queue = <<>> => (~processing' /\ loops' = {})
       /\ (lastOp' = "add" /\ ~processing /\ loops = {}) =>
            (nextId \in Running' /\ processing')
      ]_vars

\* clear() dropped a waiting task while another ran; the one that ran
\* settled, the scheduler went idle and then started a new task
C7_Witness ==
    /\ \E d \in Dropped :
          /\ \E t \in Added : t < d /\ Settled(t)
          /\ \E n \in Running : d < n
    /\ queue = <<>>

\* C8: a sleep lasts the delay in force when it began: it is set for
\* this.delay as it is at that moment, setDelay leaves a timer already set
\* as it is, and the loop resumes no earlier than began + ms.
C8_SleepKeepsItsDelay ==
    [][/\ \A l \in loops' \ loops :
            l.st = "sleep" => (l.ms = delay /\ l.began = now)
       /\ \A l \in loops :
            l.st = "sleep" =>
                \/ l \in loops'
                \/ /\ now >= l.began + l.ms
                   /\ \A s \in loops' : ~(s.st = "sleep" /\ s.task = l.task)
      ]_vars

\* setDelay lowered the delay during a sleep; the lower value has already
\* elapsed and the sleep still goes on
C8_Witness ==
    \E l \in loops :
        /\ l.st = "sleep"
        /\ l.ms > delay
        /\ now >= l.began + delay
        /\ now < l.began + l.ms

\* the whois transport calls in progress: a lookup task calls the
\* transport as soon as it is called and settles when the transport does
InFlight == started \ Finished

\* C4: in one sequential batch, every lookup after the first starts at
\* least the rate-limit delay (the delay in force when the previous lookup
\* completed) after the completion of the previous lookup.
C4_BatchLookupsSpaced ==
    [][(/\ batch'[1].i = batch[1].i + 1
        /\ batch[1].i >= 1
        /\ started' # started
        /\ lastDone.at # -1)
       => now - lastDone.at >= lastDone.delay]_vars

\* C9: at most one whois transport call is in progress, and every transport
\* call is the task of a checkDomain call that went through add(): it is the
\* task a processQueue activation awaits, and every result that is not a
\* cached copy comes from such a task.
C9_OneLookupInFlight ==
    /\ Cardinality(InFlight) <= 1
    /\ InFlight \subseteq Running
    /\ \A c \in started : promise[c].st # "none" /\ call[c].pc # "none"
    /\ \A c \in Tasks :
          (call[c].pc = "done" /\ ~call[c].res.fromCache) => c \in Finished

\* two requests at once: the lookup of one is in flight, the other's waits
C9_Witness ==
    /\ Cardinality(InFlight) = 1
    /\ Len(queue) >= 1
    /\ \A b \in {1, 2} : batch[b].pc = "await"

\* the step in which checkDomain invocation c begins
Begins(c) == call[c].pc = "none" /\ call'[c].pc # "none"

\* invocation c returns at once a cached copy of result r, without
\* submitting a task and so without a transport call
ServedFromCache(c, r) ==
    /\ call'[c].pc = "done"
    /\ call'[c].res.fromCache
    /\ call'[c].res.status = r.status
    /\ call'[c].res.available = r.available
    /\ promise'[c] = NoPromise
    /\ queue' = queue
    /\ loops' = loops
    /\ started' = started

\* C10 as stated: whatever the first call returned, a second checkDomain(D)
\* begun within the TTL of the first call's return, no other lookup of D
\* having returned in between, is served from the cache.
C10_SecondCallCachedAnyOutcome ==
    [][\A c \in Tasks :
          (/\ Begins(c)
           /\ lastFresh[call'[c].dom].call # 0
           /\ now <= lastFresh[call'[c].dom].at + CacheTTL)
          => ServedFromCache(c, call[lastFresh[call'[c].dom].call].res)
      ]_vars

\* C10 amended: when the first call returned a result other than an error,
\* a second checkDomain(D) begun within the TTL of the first call's return,
\* no other lookup of D having returned in between, is served from the
\* cache: fromCache is true, status and available are those of the first
\* result, no task is submitted and no transport call made.
C10_SecondCallCached ==
    [][\A c \in Tasks :
          (/\ Begins(c)
           /\ lastFresh[call'[c].dom].call # 0
           /\ call[lastFresh[call'[c].dom].call].res.status # "error"
           /\ now <= lastFresh[call'[c].dom].at + CacheTTL)
          => ServedFromCache(c, call[lastFresh[call'[c].dom].call].res)
      ]_vars

\* a second call for the same domain was served from the cache at the last
\* moment of the TTL window
C10_Witness ==
    \E c \in Tasks :
        /\ call[c].pc = "done"
        /\ call[c].res.fromCache
        /\ lastFresh[call[c].dom].call # 0
        /\ lastFresh[call[c].dom].call < c
        /\ now = lastFresh[call[c].dom].at + CacheTTL
        /\ \A c2 \in Tasks : c2 > c => call[c2].pc = "none"

\* the step in which checkDomain invocation c returns a result of its own
Returns(c) == call[c].pc \in {"wait", "axios"} /\ call'[c].pc = "done"

\* the step in which invocation c begins on an entry whose TTL has elapsed
BeginsExpired(c) ==
    /\ Begins(c)
    /\ call'[c].pc # "threw"
    /\ cache[call'[c].dom].present
    /\ now > cache[call'[c].dom].expiry

\* what a call that begins on an expired entry does at once: the entry is
\* removed, nothing is returned yet, its lookup task is submitted and (the
\* scheduler being idle) its transport lookup issued
FreshMiss(c) ==
    /\ call'[c].pc = "wait"
    /\ call'[c].stale
    /\ ~cache'[call'[c].dom].present
    /\ promise'[c] = Pending
    /\ c \in started'

\* the result is a new capture, not the expired value
FreshResult(c) ==
    /\ ~call'[c].res.fromCache
    /\ call'[c].res.checkedAt = now
    /\ c \in Finished

\* the entry of invocation c's domain is its result, with a new expiry
StoredAnew(c) ==
    /\ cache'[call[c].dom].present
    /\ cache'[call[c].dom].value = call'[c].res
    /\ cache'[call[c].dom].expiry = now + CacheTTL

\* C11 as stated: once the TTL of the cached result for D has elapsed, the
\* next checkDomain(D) is a fresh miss: it issues a transport lookup,
\* returns fromCache=false, never the expired value, and replaces the cache
\* entry with one that has a new expiry, whatever the lookup's outcome.
C11_ExpiredReplacedAnyOutcome ==
    [][\A c \in Tasks :
          /\ BeginsExpired(c) => FreshMiss(c)
          /\ (Returns(c) /\ call[c].stale) => (FreshResult(c) /\ StoredAnew(c))
      ]_vars

\* C11 amended: once the TTL of the cached result for D has elapsed (the
\* clock is past its expiry), the next checkDomain(D) is a fresh miss: the
\* expired entry is removed, a transport lookup is issued, the call returns
\* fromCache=false and never the expired value; when its result is not an
\* error the result is stored with a new expiry, and when it is an error
\* no entry is stored.
C11_ExpiredIsFreshMiss ==
    [][\A c \in Tasks :
          /\ BeginsExpired(c) => FreshMiss(c)
          /\ (Returns(c) /\ call[c].stale) =>
                /\ FreshResult(c)
                /\ call'[c].res.status # "error" => StoredAnew(c)
                /\ call'[c].res.status = "error" => ~cache'[call[c].dom].present
      ]_vars

\* a call that began on an expired entry has just returned a new result,
\* stored with an expiry later than the first one's
C11_Witness ==
    \E c \in Tasks :
        /\ call[c].pc = "done"
        /\ call[c].stale
        /\ call[c].res.status # "error"
        /\ call[c].res.checkedAt = now
        /\ cache[call[c].dom].expiry = now + CacheTTL
        /\ now > CacheTTL

\* C12: get(key) returns the stored value exactly when the map holds an
\* entry for the key and the clock is not past its expiry (now <= expiry);
\* when now > expiry it returns null and that same read removes the entry;
\* a read changes no other entry, and nothing at all on a hit or on a key
\* that is absent.
C12_GetHonoursExpiry ==
    [][(cacheOp'.op = "get" /\ now' = now) =>
          LET k == cacheOp'.key
              e == cache[cacheOp'.key]
          IN  /\ cacheOp'.hit <=> (e.present /\ now <= e.expiry)
              /\ cacheOp'.hit => (cacheOp'.value = e.value /\ cache' = cache)
              /\ ~cacheOp'.hit => cacheOp'.value = NoResult
              /\ (e.present /\ now > e.expiry) => ~cache'[k].present
              /\ ~e.present => cache' = cache
              /\ \A k2 \in Domains \ {k} : cache'[k2] = cache[k2]
      ]_vars

\* a read has just removed an expired entry, and another expired entry,
\* which was not read, is still in the map
C12_Witness ==
    /\ cacheOp.op = "get"
    /\ cacheOp.found
    /\ ~cacheOp.hit
    /\ ~cache[cacheOp.key].present
    /\ \E k2 \in Domains \ {cacheOp.key} : cache[k2].present /\ now > cache[k2].expiry

QueriesUpstream(c) ==
    IF provider = "godaddy"
    THEN call'[c].pc = "axios"
    ELSE call'[c].pc = "wait" /\ promise'[c] = Pending /\ c \in started'

\* C14: a checkDomain call, of either service, that returns status='error'
\* leaves the cache as it was, with no entry for its domain, and the next
\* checkDomain for that domain makes a new upstream query.
C14_ErrorsNotCached ==
    [][\A c \in Tasks :
          /\ (Returns(c) /\ call'[c].res.status = "error") =>
                (cache' = cache /\ ~cache'[call[c].dom].present)
          /\ (/\ Begins(c)
              /\ call'[c].pc # "threw"
              /\ lastFresh[call'[c].dom].call # 0
              /\ call[lastFresh[call'[c].dom].call].res.status = "error")
             => QueriesUpstream(c)
      ]_vars

\* the call before returned an error for the domain, and this call for the
\* same domain is waiting for its own upstream query
C14_Witness ==
    \E c \in Tasks :
        /\ call[c].pc \in {"wait", "axios"}
        /\ lastFresh[call[c].dom].call # 0
        /\ lastFresh[call[c].dom].call < c
        /\ call[lastFresh[call[c].dom].call].res.status = "error"
        /\ ~cache[call[c].dom].present

\* C15: checkDomain never throws and never returns a rejected promise,
\* whatever its input (a value that is not a string included) and whatever
\* the transport does: every failure comes back as a result with
\* status='error', available=null and an error message.
C15_NeverThrows ==
    \A c \in Tasks :
        /\ call[c].pc # "threw"
        /\ (call[c].pc = "done" /\ call[c].res.status = "error") =>
              (call[c].res.available = "null" /\ call[c].res.error # "-")

\* C16: in every result checkDomain returns, of either service, fresh or
\* cached, status and available agree: 'available' iff available is true,
\* 'registered' iff available is false, and available is unknown (null or
\* undefined) only with status 'error', whatever the upstream returned.
C16_StatusMatchesAvailable ==
    \A c \in Tasks :
        call[c].pc = "done" =>
            /\ call[c].res.status = "available" <=> call[c].res.available = "true"
            /\ call[c].res.status = "registered" <=> call[c].res.available = "false"
            /\ call[c].res.available \in {"null", "undefined"} =>
                  call[c].res.status = "error"

\* C19: a domain that fails the domain-syntax check is answered by
\* checkDomain with a status='error' result at once: no task is submitted
\* to the scheduler and no transport or API call is made for it.
C19_MalformedRejectedEarly ==
    [][\A c \in Tasks :
          (/\ Begins(c)
           /\ call'[c].pc # "threw"
           /\ ~IsValidDomainName(call'[c].dom))
          => /\ call'[c].pc = "done"
             /\ call'[c].res.status = "error"
             /\ promise'[c] = NoPromise
             /\ queue' = queue
             /\ started' = started
      ]_vars

\* C17: checkMultipleDomains resolves its domains one at a time in input
\* order: only the call the loop awaits is under way and every earlier one
\* has returned; the progress callback is invoked once per domain, in the
\* step that takes its result, with current = 1, 2, ... and total the
\* length of the list; the list returned has the length of the input, its
\* results in the order the calls were made; for an empty input it is
\* empty and the callback is never invoked.
C17_OneAtATimeInOrder ==
    LET b == batch[1]
    IN  /\ \A c \in Tasks :
              call[c].pc \in {"wait", "axios"} => (b.pc = "await" /\ b.cur = c)
        /\ \A k \in 1..Len(b.results) :
              /\ call[b.results[k]].pc = "done"
              /\ k > 1 => b.results[k - 1] < b.results[k]
              /\ b.pc = "await" => b.results[k] < b.cur
        /\ b.pc = "await" => b.i = Len(b.results) + 1
        /\ Len(b.progress) = Len(b.results)
        /\ \A k \in 1..Len(b.progress) : b.progress[k] = <<k, b.n>>
        /\ b.pc = "done" => Len(b.results) = b.n
        /\ (b.pc = "done" /\ b.n = 0) => (b.results = <<>> /\ b.progress = <<>>)

\* a list of two was resolved and returned, the callback invoked twice
C17_Witness ==
    /\ batch[1].pc = "done"
    /\ batch[1].n = 2
    /\ Len(batch[1].results) = 2
    /\ batch[1].progress = <<(<<1, 2>>), (<<2, 2>>)>>

\* a whois reply that is a failure whose message has a not-found phrase
NotFoundReply(r) == r.kind = "error" /\ r.has \cap notFoundPatterns # {}

\* the step, if it is the return of a call or the loop taking a result,
\* touches nothing of the other domains: a returning call changes no other
\* call's result, no cache entry but its own domain's (none at all when it
\* returns an error) and nothing in the list; its result is made from its
\* own lookup's outcome; the loop goes on after every result, an error
\* too, and returns when it has one result per domain; only a rejected
\* checkDomain ends it early
IsolatedStep ==
    /\ \A c \in Tasks :
          Returns(c) =>
              /\ \A c2 \in Tasks \ {c} : call'[c2] = call[c2]
              /\ \A d \in Domains \ {call[c].dom} : cache'[d] = cache[d]
              /\ batch' = batch
              /\ call'[c].res.status = "error" => cache' = cache
              /\ provider = "whois" =>
                    /\ call'[c].res.status = "error" <=> ~taskOut[c].ok
                    /\ taskOut[c].ok => call'[c].res.available = taskOut[c].val
    /\ (batch[1].pc = "await" /\ batch'[1].pc = "threw") =>
          call[batch[1].cur].pc = "threw"
    /\ (batch[1].pc = "await" /\ call[batch[1].cur].pc = "done" /\ batch' # batch) =>
          /\ Len(batch'[1].results) = Len(batch[1].results) + 1
          /\ batch'[1].pc = "done" <=> Len(batch'[1].results) = batch[1].n

\* C18 as stated: in a batch where the transport call of one domain
\* throws, the batch still returns one result per domain, the failing
\* domain's result has status='error', and the other domains' results and
\* cache entries are what they are in a batch where nothing fails.
C18_AnyThrowIsError ==
    [][/\ IsolatedStep
       /\ \A c \in Tasks :
            (Returns(c) /\ provider = "whois" /\ lastReply.kind = "error") =>
                call'[c].res.status = "error"
      ]_vars

\* C18 amended: in a batch where the transport call of one domain throws,
\* the batch still returns one result per domain; the failing domain's
\* result has status='error' unless the whois failure message contains a
\* not-found phrase, in which case it is 'available'; the other domains'
\* results and cache entries are what they are in a batch where nothing
\* fails.
C18_BatchIsolatesFailure ==
    [][/\ IsolatedStep
       /\ \A c \in Tasks :
            (Returns(c) /\ provider = "whois" /\ lastReply.kind = "error") =>
                /\ call'[c].res.status = "error" <=> ~NotFoundReply(lastReply)
                /\ NotFoundReply(lastReply) => call'[c].res.status = "available"
      ]_vars

\* a list of two was returned whose first domain's transport call threw
\* and whose second was looked up, classified and stored
C18_Witness ==
    /\ batch[1].pc = "done"
    /\ Len(batch[1].results) = 2
    /\ taskOut[batch[1].results[1]] # NoOutcome
    /\ ~taskOut[batch[1].results[1]].ok
    /\ call[batch[1].results[1]].res.status = "error"
    /\ call[batch[1].results[2]].res.status # "error"
    /\ ~call[batch[1].results[2]].res.fromCache
    /\ cache[call[batch[1].results[2]].dom].present

\* C20: when the whois transport fails with a message that contains a
\* not-found phrase, the lookup returns available=true, the result has
\* status 'available' and is stored like any successful result; this for
\* every TLD, and also when the message contains a timeout or connection
\* phrase as well.
C20_NotFoundIsAvailable ==
    [][\A c \in Tasks :
          /\ (taskOut'[c] # taskOut[c] /\ NotFoundReply(lastReply')) =>
                /\ taskOut'[c] = [ok |-> TRUE, val |-> "true"]
                /\ promise'[c] = [st |-> "resolved", val |-> "true"]
          /\ (Returns(c) /\ provider = "whois" /\ NotFoundReply(lastReply)) =>
                /\ call'[c].res.available = "true"
                /\ call'[c].res.status = "available"
                /\ call'[c].res.error = "-"
                /\ cache'[call[c].dom] =
                      [present |-> TRUE, value |-> call'[c].res,
                       expiry |-> now + CacheTTL, createdAt |-> now]
      ]_vars

\* a lookup for a .dev name failed with a message of both vocabularies;
\* the result is 'available' and stored
C20_Witness ==
    \E c \in Tasks :
        /\ provider = "whois"
        /\ call[c].pc = "done"
        /\ ~call[c].res.fromCache
        /\ Extension(call[c].dom) \in problematicTLDs
        /\ NotFoundReply(lastReply)
        /\ lastReply.has \cap timeoutPatterns # {}
        /\ call[c].res.status = "available"
        /\ cache[call[c].dom].present
        /\ lastFresh[call[c].dom].call = c

\* a whois reply that is a failure whose message has a timeout or
\* connection phrase
TimeoutReply(r) == r.kind = "error" /\ r.has \cap timeoutPatterns # {}

\* the result of invocation c is the manual-verification error for its
\* TLD, and the cache is left as it was
ManualCheckResult(c) ==
    /\ call'[c].res.status = "error"
    /\ call'[c].res.available = "null"
    /\ call'[c].res.error = ManualCheckMessage(Extension(call[c].dom))
    /\ cache' = cache
    /\ ~cache'[call[c].dom].present

\* C21 as stated: when the whois transport fails with a timeout or
\* connection message for a domain of a special-handling TLD (.app, .dev,
\* .page, .new), checkDomain returns status='error', available=null with
\* the manual-verification message; it is never classified available or
\* registered and is not cached.
C21_TimeoutIsAlwaysManual ==
    [][\A c \in Tasks :
          (/\ Returns(c)
           /\ provider = "whois"
           /\ TimeoutReply(lastReply)
           /\ Extension(call[c].dom) \in problematicTLDs)
          => ManualCheckResult(c)
      ]_vars

\* C21 amended: the same, for a timeout or connection message that
\* contains no not-found phrase.
C21_TimeoutOnSpecialTLD ==
    [][\A c \in Tasks :
          (/\ Returns(c)
           /\ provider = "whois"
           /\ TimeoutReply(lastReply)
           /\ ~NotFoundReply(lastReply)
           /\ Extension(call[c].dom) \in problematicTLDs)
          => ManualCheckResult(c)
      ]_vars

\* the lookup of a .dev name failed with ETIMEDOUT; the call returned the
\* manual-verification error and the domain has no cache entry
C21_Witness ==
    \E c \in Tasks :
        /\ call[c].pc = "done"
        /\ provider = "whois"
        /\ ~call[c].res.fromCache
        /\ lastFresh[call[c].dom].call = c
        /\ Extension(call[c].dom) = ".dev"
        /\ lastReply.kind = "error"
        /\ lastReply.text = "ETIMEDOUT"
        /\ call[c].res.status = "error"
        /\ call[c].res.error = ManualCheckMessage(".dev")
        /\ ~cache[call[c].dom].present

\* C22: a whois transport failure that is neither a not-found message nor
\* a timeout or connection message on a special-handling TLD (a timeout
\* on any other TLD included) gives a result with status='error' whose
\* error field is the transport's failure message, unchanged.
C22_OtherFailureVerbatim ==
    [][\A c \in Tasks :
          (/\ Returns(c)
           /\ provider = "whois"
           /\ lastReply.kind = "error"
           /\ ~NotFoundReply(lastReply)
           /\ ~(TimeoutReply(lastReply) /\ Extension(call[c].dom) \in problematicTLDs))
          => /\ call'[c].res.status = "error"
             /\ call'[c].res.available = "null"
             /\ call'[c].res.error = lastReply.text
      ]_vars

\* the lookup of a .com name failed with ETIMEDOUT and the call returned
\* an error with that message
C22_Witness ==
    \E c \in Tasks :
        /\ call[c].pc = "done"
        /\ provider = "whois"
        /\ ~call[c].res.fromCache
        /\ lastFresh[call[c].dom].call = c
        /\ Extension(call[c].dom) = ".com"
        /\ lastReply.kind = "error"
        /\ lastReply.text = "ETIMEDOUT"
        /\ call[c].res.status = "error"
        /\ call[c].res.error = "ETIMEDOUT"

\* the lookup of invocation c was resolved with the object in lastReply
\* and isDomainAvailable has classified it
Classified(c) == taskOut[c] # NoOutcome /\ lastReply.kind = "data"

\* the verdict of isDomainAvailable for invocation c is v, and so is the
\* result of checkDomain once it has returned
Verdict(c, v) ==
    /\ taskOut[c] = [ok |-> TRUE, val |-> v]
    /\ call[c].pc = "done" =>
          /\ call[c].res.available = v
          /\ call[c].res.status = IF v = "true" THEN "available" ELSE "registered"

C24_TwoPhrasesAnyLength ==
    \A c \in Tasks :
        (/\ Classified(c)
         /\ ~lastReply.null
         /\ lastReply.reg = 2
         /\ lastReply.av = 0)
        => Verdict(c, "false")

\* C24 amended: every raw response containing exactly two distinct
\* strong-registration phrases and no availability phrase, whose
\* lower-cased JSON text has at least 50 characters, is classified
\* registered.
C24_TwoPhrasesRegistered ==
    \A c \in Tasks :
        (/\ Classified(c)
         /\ ~lastReply.null
         /\ lastReply.len >= 50
         /\ lastReply.reg = 2
         /\ lastReply.av = 0)
        => Verdict(c, "false")

\* a response of 50 characters with two registration phrases and no
\* availability phrase was classified and returned as 'registered'
C24_Witness ==
    /\ call[1].pc = "done"
    /\ Classified(1)
    /\ lastReply.len = 50
    /\ lastReply.reg = 2
    /\ lastReply.av = 0
    /\ call[1].res.available = "false"
    /\ call[1].res.status = "registered"

\* C25: a successful response that is absent (null, empty) or whose
\* lower-cased JSON text is shorter than 50 characters is classified
\* available=true, whatever phrases of either vocabulary it contains: the
\* check comes before either scan.
C25_ShortIsAvailable ==
    \A c \in Tasks :
        (Classified(c) /\ (lastReply.null \/ lastReply.len < 50))
        => Verdict(c, "true")

\* a response of 49 characters with two registration phrases was
\* classified and returned as 'available'
C25_Witness ==
    /\ call[1].pc = "done"
    /\ Classified(1)
    /\ ~lastReply.null
    /\ lastReply.len = 49
    /\ lastReply.reg = 2
    /\ call[1].res.available = "true"
    /\ call[1].res.status = "available"

\* C26: for a successful response that matches no strong-registration
\* phrase and no availability phrase the verdict depends on the length
\* only: available=true when the serialized length is below 200,
\* registered (available=false) otherwise; such a response is never
\* reported as an error.
C26_NoEvidenceByLength ==
    \A c \in Tasks :
        (Classified(c) /\ lastReply.reg = 0 /\ lastReply.av = 0)
        => /\ Verdict(c, IF lastReply.null \/ lastReply.len < 200
                         THEN "true" ELSE "false")
           /\ call[c].pc = "done" =>
                 (call[c].res.status # "error" /\ call[c].res.error = "-")

\* a response of exactly 200 characters with no phrase of either
\* vocabulary was classified and returned as 'registered'
C26_Witness ==
    /\ call[1].pc = "done"
    /\ Classified(1)
    /\ lastReply.len = 200
    /\ lastReply.reg = 0
    /\ lastReply.av = 0
    /\ call[1].res.available = "false"
    /\ call[1].res.status = "registered"

\* the invocation whose lookup was the last to be answered
LastLookup ==
    CHOOSE c \in Tasks :
        /\ taskOut[c] # NoOutcome
        /\ \A c2 \in Tasks : c2 > c => taskOut[c2] = NoOutcome

AxiosAnswers(c) == call[c].pc = "axios" /\ call'[c] # call[c]

\* C28: a GoDaddy 401 response makes GoDaddyService.checkDomain issue
\* exactly one HTTP request for the call (a request is sent only as the
\* call begins, and the call returns as the 401 arrives) and return
\* status='error' with a fixed message that differs from the messages for
\* 400, 422, 429 and for any other failure; the result is not cached.
C28_Unauthorized ==
    [][\A c \in Tasks :
          /\ (call'[c].pc = "axios" /\ call[c].pc # "axios") => Begins(c)
          /\ (/\ AxiosAnswers(c)
              /\ lastReply'.kind = "error"
              /\ lastReply'.status = 401)
             => /\ call'[c].pc = "done"
                /\ call'[c].res.status = "error"
                /\ call'[c].res.available = "null"
                /\ call'[c].res.error =
                      "API Key de GoDaddy inválida. Verifica tu configuración."
                /\ \A r \in AxiosReplies :
                      (r.kind = "error" /\ r.status # 401) =>
                          GoDaddyErrorMessage(r) # call'[c].res.error
                /\ cache' = cache
                /\ ~cache'[call[c].dom].present
      ]_vars

\* a GoDaddy call was answered 401 and has returned its error, the domain
\* having no cache entry
C28_Witness ==
    \E c \in Tasks :
        /\ provider = "godaddy"
        /\ call[c].pc = "done"
        /\ lastFresh[call[c].dom].call = c
        /\ lastReply.kind = "error"
        /\ lastReply.status = 401
        /\ call[c].res.status = "error"
        /\ call[c].res.provider = "godaddy"
        /\ ~cache[call[c].dom].present

\* C29: in the 'complete' event of POST /api/check the three counts of
\* the summary partition the results: every result is counted in exactly
\* one of available, registered and errors, so that their sum is the
\* total, for the results of either provider.
C29_SummaryPartitions ==
    batch[1].pc = "done" =>
        LET rs == batch[1].results
            s  == Summary(rs)
        IN  /\ Len(rs) = batch[1].n
            /\ s.available + s.registered + s.errors = Len(rs)
            /\ \A i \in 1..Len(rs) :
                  LET r == call[rs[i]].res
                  IN  Cardinality({k \in {"available", "registered", "errors"} :
                          \/ k = "available" /\ r.available = "true"
                          \/ k = "registered" /\ r.available = "false"
                          \/ k = "errors" /\ r.status = "error"}) = 1

\* C30: the delay a POST /api/check request installs in the shared
\* scheduler is always between the documented minimum of 1000 ms and the
\* documented maximum of 5000 ms: a requested delay outside that range is
\* never applied.
C30_DelayWithinDocumentedRange ==
    [][(batch[1].pc # "await" /\ batch'[1].pc = "await") =>
          (delay' = delay \/ delay' \in MinRequestDelay..DocumentedMaxDelay)
      ]_vars

\* C31: for a successful response whose serialized length is at least 50
\* the verdict depends on the number of strong-registration phrases only
\* through its being zero or not: one match gives registered, as two or
\* more do, and with none the verdict is that of the availability phrases
\* and the length.
C31_OneMatchIsEnough ==
    \A c \in Tasks :
        (Classified(c) /\ ~lastReply.null /\ lastReply.len >= 50)
        => Verdict(c, IF lastReply.reg # 0 THEN "false"
                      ELSE IF lastReply.av # 0 \/ lastReply.len < 200 THEN "true"
                      ELSE "false")

\* a response of 199 characters with exactly one registration phrase and
\* no availability phrase was classified and returned as 'registered'
C31_Witness ==
    /\ call[1].pc = "done"
    /\ Classified(1)
    /\ lastReply.len = 199
    /\ lastReply.reg = 1
    /\ lastReply.av = 0
    /\ call[1].res.available = "false"
    /\ call[1].res.status = "registered"

\* the arguments i and j differ at most in letter case and surrounding
\* whitespace
SameName(i, j) == i = j \/ {i, j} = {"a.com", " A.Com "}

\* the strings with no upper-case letter and no whitespace around
LowerTrimmed == {"a.com", "b.dev"}

\* C32: checkDomain keys the cache by its argument lower-cased and
\* trimmed.  The domain of a call, and the domain field of its result, is
\* that string; and a call whose argument differs from the argument of
\* the call before only in letter case or surrounding whitespace, begun
\* within the TTL of the result that was looked up for it (an error is
\* not a result that is kept), is served that result from the cache.
C32_KeyIsNormalized ==
    [][\A c \in Tasks :
          /\ Begins(c) =>
                /\ call'[c].dom \in LowerTrimmed
                /\ SameName(argOf'[c], call'[c].dom)
          /\ (call'[c].pc = "done" /\ call[c].pc # "done") =>
                /\ call'[c].res.domain \in LowerTrimmed
                /\ SameName(argOf'[c], call'[c].res.domain)
          /\ (/\ Begins(c)
              /\ c > 1
              /\ SameName(argOf[c - 1], argOf'[c])
              /\ lastFresh[call[c - 1].dom].call # 0
              /\ call[lastFresh[call[c - 1].dom].call].res.status # "error"
              /\ now <= lastFresh[call[c - 1].dom].at + CacheTTL)
             => /\ ServedFromCache(c, call[lastFresh[call[c - 1].dom].call].res)
                /\ call'[c].res.domain = call[c - 1].res.domain
      ]_vars

\* checkDomain("a.com") was looked up and stored, and checkDomain(" A.Com ")
\* after it was served from the cache with domain "a.com"
C32_Witness ==
    /\ argOf[1] = "a.com"
    /\ argOf[2] = " A.Com "
    /\ call[1].pc = "done"
    /\ ~call[1].res.fromCache
    /\ call[2].pc = "done"
    /\ call[2].res.fromCache
    /\ call[2].res.domain = "a.com"
    /\ call[2].res.status = call[1].res.status
    /\ cache["a.com"].present

\* C33: every value held in the cache, under either provider, is a result
\* with status 'available' or 'registered', a boolean available and
\* fromCache=false: no error result and no fromCache=true copy is stored.
C33_CachedValuesAreVerdicts ==
    \A d \in Domains :
        cache[d].present =>
            /\ cache[d].value.status \in {"available", "registered"}
            /\ cache[d].value.available \in {"true", "false"}
            /\ ~cache[d].value.fromCache

\* what every step does for overlapping calls: a call that misses the
\* cache submits a lookup task of its own, whatever other calls for the
\* domain are waiting; a task starts only when every task submitted
\* before it has completed; a call that went through a lookup returns
\* fromCache=false
EachCallLooksUp ==
    \A c \in Tasks :
        /\ (Begins(c) /\ call'[c].pc = "wait") =>
              /\ promise'[c] = Pending
              /\ c \in started' \/ (Len(queue') > 0 /\ queue'[Len(queue')] = c)
        /\ (c \in started' \ started) =>
              \A c0 \in Tasks :
                  (c0 < c /\ promise[c0] # NoPromise) => taskOut'[c0] # NoOutcome
        /\ Returns(c) => ~call'[c].res.fromCache

\* C34 as stated: overlapping checkDomain calls for the same uncached
\* domain are not coalesced: each call that misses enqueues its own
\* lookup task, the tasks run one after the other in submission order,
\* each call returns fromCache=false, and the cache entry left is the one
\* written by the call that completed last.
C34_LastCompletedWrote ==
    [][/\ EachCallLooksUp
       /\ \A c \in Tasks :
             Returns(c) =>
                 /\ cache'[call[c].dom].present
                 /\ cache'[call[c].dom].value = call'[c].res
      ]_vars

\* C34 amended: the same, the cache entry left being the one written by
\* the last call that completed without an error: a call that returns a
\* result other than an error replaces the entry, a call that returns an
\* error leaves the cache as it is.
C34_NotCoalesced ==
    [][/\ EachCallLooksUp
       /\ \A c \in Tasks :
             Returns(c) =>
                 IF call'[c].res.status = "error"
                 THEN cache' = cache
                 ELSE /\ cache'[call[c].dom].present
                      /\ cache'[call[c].dom].value = call'[c].res
                      /\ \A d \in Domains \ {call[c].dom} : cache'[d] = cache[d]
      ]_vars

\* two calls for the same domain overlapped: both were looked up and
\* returned fromCache=false with different verdicts, and the entry is the
\* result of the one that completed last
C34_Witness ==
    \E c1, c2 \in Tasks :
        /\ c1 < c2
        /\ call[c1].pc = "done" /\ call[c2].pc = "done"
        /\ call[c1].dom = call[c2].dom
        /\ ~call[c1].res.fromCache /\ ~call[c2].res.fromCache
        /\ call[c1].res.status = "available"
        /\ call[c2].res.status = "registered"
        /\ lastFresh[call[c2].dom].call = c2
        /\ cache[call[c2].dom].value = call[c2].res

\* C35: the scheduler's delay is one process-wide value.  It changes only
\* in the step in which a POST /api/check request begins and installs its
\* own, so it stays in force when that request, or any other, goes on or
\* finishes; and every sleep that begins afterwards lasts the delay then
\* in force, whichever request the lookups before and after it belong to.
C35_DelayIsProcessWide ==
    [][/\ delay' # delay =>
             \E b \in Batches : batch[b].pc # "await" /\ batch'[b].pc = "await"
       /\ \A l \in loops' \ loops :
             l.st = "sleep" => (l.ms = delay /\ delay' = delay)
      ]_vars

\* two requests are in progress; the lookup of the first has completed and
\* the sleep before the lookup of the second lasts the delay a request
\* installed, which is not the configured one
C35_Witness ==
    /\ batch[1].pc = "await"
    /\ batch[2].pc = "await"
    /\ delay # RateLimitDelay
    /\ Len(queue) > 0
    /\ Head(queue) = batch[2].cur
    /\ \E l \in loops :
          /\ l.st = "sleep"
          /\ l.task = batch[1].cur
          /\ l.ms = delay

\* C36: whenever the RateLimiter is idle (processing is false) between
\* two steps of the event loop its queue is empty: no sequence of add(),
\* clear(), setDelay() calls and task completions or failures leaves a
\* task waiting in the queue with no processQueue activation to run it.
C36_IdleMeansEmpty ==
    ~processing => (queue = <<>> /\ GetQueueSize = 0)

\* the scheduler is idle again after a task failed, clear() dropped a
\* waiting task and a later task completed
C36_Witness ==
    /\ ~processing
    /\ lastOp = "done"
    /\ Dropped # {}
    /\ \E t \in Tasks : taskOut[t] # NoOutcome /\ ~taskOut[t].ok
    /\ \E t \in Tasks : taskOut[t] # NoOutcome /\ taskOut[t].ok
====
